---- MODULE Spec2Model ----
(***************************************************************************)
(* Model of yaml-path: the character-level token scanner, the selector     *)
(* parser built on it (PathScanner), PathValidate and PathResolve.         *)
(*                                                                         *)
(* A path is a sequence of one-character strings.  Offsets are 0-based     *)
(* counts as in the C++ source (size_t), sequences are 1-based as in TLA+. *)
(***************************************************************************)
EXTENDS Integers, Sequences, FiniteSets, TLC

(***************************************************************************)
(* Bounds of the model.                                                    *)
(***************************************************************************)
\* longest path enumerated character by character (PathValidate)
MaxLen == 4
\* longest path enumerated character by character for direct scanner calls
MaxScanLen == 3
\* largest number of path fragments concatenated into a structured path
MaxSegs == 3
\* longest bracketed numeral enumerated over all ten digits
MaxDigits == 3
\* number of direct NextToken / NextSelector calls made on one scanner
MaxCalls == 4

\* how often a caller resolves the returned path again
MaxAgain == 1

\* most fragments in a path of a call that is followed to its end
MaxFairSegs == 2
\* largest offset of a PathException on which What is called
MaxOffset == 10
\* longest offending value of a PathException on which What is called
MaxValueLen == 2
\* width in bits of size_t in the model (arithmetic is modulo 2^IndexBits)
IndexBits == 8

(***************************************************************************)
(* Characters.                                                             *)
(***************************************************************************)
\* a byte >= 0x80, for which isascii() is false
NonAscii == "<C3>"

Digits == <<"0", "1", "2", "3", "4", "5", "6", "7", "8", "9">>

DigitSet == {Digits[i] : i \in 1..10}

\* c - '0'
DigitVal(c) == (CHOOSE i \in 1..10 : Digits[i] = c) - 1

IsAscii(c) == c # NonAscii

\* isspace(c) in the C locale, for the characters of the model
IsSpace(c) == c \in {" "}

\* ispunct(c) in the C locale, for the characters of the model
IsPunct(c) == c \in {".", "[", "]", "=", "'", "\"", "#"}

\* the predicate of SkipWS
IsWS(c) == IsAscii(c) /\ IsSpace(c)

\* the predicate of the unquoted-token scan
IsUnquotedChar(c) == ~IsAscii(c) \/ ~(IsSpace(c) \/ IsPunct(c))

(***************************************************************************)
(* Utility functions.                                                      *)
(***************************************************************************)
\* SplitAt: left is the returned slice, right is what `path' is assigned
SplitAt(path, offset) ==
  IF offset = 0 THEN [left |-> <<>>, right |-> path]
  ELSE IF offset >= Len(path) THEN [left |-> path, right |-> <<>>]
  ELSE [left |-> SubSeq(path, 1, offset),
        right |-> SubSeq(path, offset + 1, Len(path))]

\* pred(c) for the two predicates that are handed to Split, by name
Holds(pred, c) ==
  IF pred = "IsWS" THEN IsWS(c) ELSE IsUnquotedChar(c)

RECURSIVE SplitOffset(_, _, _)
\* the while loop of Split: the first offset at which pred fails
SplitOffset(path, pred, offset) ==
  IF offset < Len(path) /\ Holds(pred, path[offset + 1])
  THEN SplitOffset(path, pred, offset + 1)
  ELSE offset

Split(path, pred) == SplitAt(path, SplitOffset(path, pred, 0))

\* std::string::npos
Npos == -1

RECURSIVE Find(_, _, _)
\* path.find(c, from): 0-based position of the first c at or after from
Find(path, c, from) ==
  IF from >= Len(path) THEN Npos
  ELSE IF path[from + 1] = c THEN from
  ELSE Find(path, c, from + 1)

\* sv.substr(pos, count), pos <= size
Substr(sv, pos, count) ==
  SubSeq(sv, pos + 1, IF pos + count > Len(sv) THEN Len(sv) ELSE pos + count)

(***************************************************************************)
(* Tokens and bit masks of tokens.                                         *)
(***************************************************************************)
\* the enumerator added after Period in enum class EToken
EqualValue == 6

\* the integer value of an EToken enumerator
ETokenValue(id) ==
  CASE id = "Invalid" -> -1
    [] id = "None" -> 0
    [] id = "QuotedIdentifier" -> 1
    [] id = "UnquotedIdentifier" -> 2
    [] id = "OpenBracket" -> 3
    [] id = "CloseBracket" -> 4
    [] id = "Period" -> 5
    [] id = "Equal" -> EqualValue

\* a 64 bit mask is modelled by the set of its bit positions
BitsOf(values) == {ETokenValue(v) : v \in values}

\* TBits(1) << TBits(v) is undefined for a shift count outside 0..63
\* (EToken::Invalid converts to 2^64 - 1): the hardware either masks the
\* count to six bits (bit 63) or shifts the bit out (no bit).
UBShiftOutcomes == {{63}, {}}

\* the bits of TBits(1) << TBits(v); ub is the outcome of an undefined shift
ShiftOne(v, ub) == IF v \in 0..63 THEN {v} ELSE ub

BitsContain(bits, v, ub) == (ShiftOne(ETokenValue(v), ub) \cap bits) # {}

\* (faulty variant of ValidTokensAtStart) a separator may start a selector
ValidTokensAtStartWithPeriod ==
  BitsOf({"None", "OpenBracket", "QuotedIdentifier", "UnquotedIdentifier",
          "Period"})

ValidTokensAtStart ==
  BitsOf({"None", "OpenBracket", "QuotedIdentifier", "UnquotedIdentifier"})

GetSingleCharToken(c) ==
  CASE c = "." -> "Period"
    [] c = "[" -> "OpenBracket"
    [] c = "]" -> "CloseBracket"
    [] c = "=" -> "Equal"
    [] OTHER -> "None"

(***************************************************************************)
(* PathScanner.  A scanner is a record of its members.                     *)
(***************************************************************************)
ArgNull ==
  [alt |-> "ArgNull", key |-> <<>>, index |-> 0,
   hasValue |-> FALSE, value |-> <<>>]

ArgKey(k) ==
  [alt |-> "ArgKey", key |-> k, index |-> 0,
   hasValue |-> FALSE, value |-> <<>>]

ArgIndex(i) ==
  [alt |-> "ArgIndex", key |-> <<>>, index |-> i,
   hasValue |-> FALSE, value |-> <<>>]

\* value is std::optional<path_arg>
ArgSeqMapFilter(k, has, v) ==
  [alt |-> "ArgSeqMapFilter", key |-> k, index |-> 0,
   hasValue |-> has, value |-> v]

\* std::optional<PathException> without a value
NoException == [set |-> FALSE, error |-> "None", offset |-> 0, value |-> <<>>]

ScanOffset(s) == Len(s.m_all) - Len(s.m_rpath)

\* (faulty variant of Right) the remainder without a leading separator
RightAtSelector(s) ==
  IF s.m_rpath # <<>> /\ s.m_rpath[1] = "."
  THEN Split(Tail(s.m_rpath), "IsWS").right
  ELSE s.m_rpath

Right(s) == s.m_rpath

\* explicit operator bool
ScanBool(s) ==
  s.m_rpath # <<>> /\ s.m_curToken.id # "Invalid" /\ ~s.m_curException.set

SkipWS(s) == [s EXCEPT !.m_rpath = Split(s.m_rpath, "IsWS").right]

\* the initial values of the members that NextSelector uses and the class
\* declaration at hand does not list
MembersNotDeclared ==
  [m_selectorRequired |-> FALSE, m_periodAllowed |-> FALSE, m_leftOffset |-> 0]

\* the members' default initialisers, before the constructor body
ScannerMembers(p) ==
  [m_rpath |-> p, m_all |-> p,
   m_curToken |-> [id |-> "None", value |-> <<>>],
   m_selector |-> "None", m_selectorData |-> ArgNull,
   m_tokenPending |-> FALSE,
   m_selectorRequired |-> MembersNotDeclared.m_selectorRequired,
   m_periodAllowed |-> MembersNotDeclared.m_periodAllowed,
   m_leftOffset |-> MembersNotDeclared.m_leftOffset,
   m_curException |-> NoException]

\* PathScanner::PathScanner
PathScanner(p) == SkipWS(ScannerMembers(p))

SetToken(s, id, p) == SkipWS([s EXCEPT !.m_curToken = [id |-> id, value |-> p]])

SetSelector(s, selector, arg) ==
  [s EXCEPT !.m_selector = selector, !.m_selectorData = arg]

SetError(s, error) ==
  SetSelector(
    [s EXCEPT !.m_curException =
                 [set |-> TRUE, error |-> error, offset |-> ScanOffset(s),
                  value |-> s.m_curToken.value],
              !.m_curToken = [id |-> "Invalid", value |-> <<>>]],
    "Invalid", ArgNull)

\* (faulty variant of TokenSplitOff) the token is not taken off m_rpath
TokenSplitOffKeepsPath(s, id, sp) == SetToken(s, id, sp.left)

\* the token sp.left has been split off the front of m_rpath
TokenSplitOff(s, id, sp) ==
  SetToken([s EXCEPT !.m_rpath = sp.right], id, sp.left)

\* SplitAt(m_rpath, end + 1).substr(1, end - 1): the text between the quotes
QuotedSplitOff(s, sp, end) ==
  SetToken([s EXCEPT !.m_rpath = sp.right],
           "QuotedIdentifier", Substr(sp.left, 1, end - 1))

\* NextToken, quoted token; end is the position of the closing quote
NextTokenQuoted(s, end) ==
  IF end = Npos
  THEN SetToken(s, "Invalid", <<>>)
  ELSE QuotedSplitOff(s, SplitAt(s.m_rpath, end + 1), end)

\* NextToken, unquoted token; sp is the split at the end of the run
NextTokenUnquoted(s, sp) ==
  IF sp.left = <<>>
  THEN SetError([s EXCEPT !.m_rpath = sp.right], "InvalidToken")
  ELSE TokenSplitOff(s, "UnquotedIdentifier", sp)

\* NextToken from "single-char special tokens" on
NextTokenHead(s, head, t) ==
  IF t # "None" THEN TokenSplitOff(s, t, SplitAt(s.m_rpath, 1))
  ELSE IF head = "'" \/ head = "\""
  THEN NextTokenQuoted(s, Find(s.m_rpath, head, 1))
  ELSE NextTokenUnquoted(s, Split(s.m_rpath, "IsUnquotedChar"))

NextToken(s) ==
  IF s.m_rpath = <<>> THEN SetToken(s, "None", <<>>)
  ELSE IF s.m_curException.set THEN s
  ELSE NextTokenHead(s, s.m_rpath[1], GetSingleCharToken(s.m_rpath[1]))

RECURSIVE AsIndexLoop(_, _, _)
\* the for loop of AsIndex over the characters of the token from position i
AsIndexLoop(chars, i, value) ==
  IF i > Len(chars) THEN [kind |-> "value", value |-> value]
  ELSE IF chars[i] \notin DigitSet THEN [kind |-> "nullopt", value |-> 0]
  ELSE IF (value * 10 + DigitVal(chars[i])) % (2 ^ IndexBits) < value
  THEN [kind |-> "overflow", value |-> 0]
  ELSE AsIndexLoop(chars, i + 1,
                   (value * 10 + DigitVal(chars[i])) % (2 ^ IndexBits))

\* what AsIndex leaves: on overflow SetError has been called
AsIndexResult(s, r) ==
  [s |-> IF r.kind = "overflow" THEN SetError(s, "InvalidIndex") ELSE s,
   kind |-> r.kind, value |-> r.value]

\* AsIndex: kind is "value" (an index), "nullopt", or "overflow" (SetError
\* has been called and nullopt is returned)
AsIndex(s) ==
  IF s.m_curToken.id # "UnquotedIdentifier"
  THEN [s |-> s, kind |-> "nullopt", value |-> 0]
  ELSE AsIndexResult(s, AsIndexLoop(s.m_curToken.value, 1, 0))

\* NextSelectorToken from the BitsContain test on.  The scanner after the
\* NextToken call is a value computed once and named s, as the object is in
\* the code; the operators below that continue from the result of a call
\* name it in the same way.
CheckToken(scanned, validTokens, error, ub) ==
  CHOOSE r \in {
    IF BitsContain(validTokens, s.m_curToken.id, ub)
    THEN [s |-> s, ok |-> TRUE]
    ELSE [s |-> SetError(s, error), ok |-> FALSE]
    : s \in {scanned}} : TRUE

\* (faulty variant of NextSelectorToken) a pushed-back token is dropped and
\* the next token is scanned
NextSelectorTokenRescans(s, validTokens, error, ub) ==
  CheckToken([NextToken(s) EXCEPT !.m_tokenPending = FALSE],
             validTokens, error, ub)

\* s is the scanner after the call, ok the returned bool
NextSelectorToken(s, validTokens, error, ub) ==
  CheckToken([(IF ~s.m_tokenPending THEN NextToken(s) ELSE s)
                EXCEPT !.m_tokenPending = FALSE],
             validTokens, error, ub)

\* a selector was produced: m_periodAllowed, m_leftOffset, SetSelector
Produce(s, selector, arg) ==
  [s |-> SetSelector([s EXCEPT !.m_periodAllowed = TRUE,
                               !.m_leftOffset = ScanOffset(s)],
                     selector, arg),
   ret |-> selector]

\* return ESelector::Invalid
Failed(s) == [s |-> s, ret |-> "Invalid"]

\* [key=value: cl is the result of asking for the closing bracket
FilterClosed(closing, tokKey, tokValue) ==
  CHOOSE r \in {
    IF ~cl.ok THEN Failed(cl.s)
    ELSE Produce(cl.s, "SeqMapFilter", ArgSeqMapFilter(tokKey, TRUE, tokValue))
    : cl \in {closing}} : TRUE

\* [key=: v is the result of asking for a value or the closing bracket
FilterValue(val, tokKey, ub) ==
  CHOOSE r \in {
    IF ~v.ok THEN Failed(v.s)
    ELSE IF v.s.m_curToken.id # "CloseBracket"
    THEN FilterClosed(
           NextSelectorToken(v.s, BitsOf({"CloseBracket"}), "InvalidToken", ub),
           tokKey, v.s.m_curToken.value)
    ELSE Produce(v.s, "SeqMapFilter", ArgSeqMapFilter(tokKey, FALSE, <<>>))
    : v \in {val}} : TRUE

\* [key: eq is the result of asking for the equal sign
FilterEqual(equal, tokKey, ub) ==
  CHOOSE r \in {
    IF ~eq.ok THEN Failed(eq.s)
    ELSE FilterValue(
           NextSelectorToken(eq.s,
             BitsOf({"QuotedIdentifier", "UnquotedIdentifier", "CloseBracket"}),
             "InvalidToken", ub),
           tokKey, ub)
    : eq \in {equal}} : TRUE

\* (faulty variant of NextSelectorFilter) a missing equal sign reported as the
\* bracket's first token is: InvalidIndex
NextSelectorFilterIndexError(s, ub) ==
  FilterEqual(NextSelectorToken(s, BitsOf({"Equal"}), "InvalidIndex", ub),
              s.m_curToken.value, ub)

\* case EToken::OpenBracket of NextSelector, [key=] and [key=value]
NextSelectorFilter(s, ub) ==
  FilterEqual(NextSelectorToken(s, BitsOf({"Equal"}), "InvalidToken", ub),
              s.m_curToken.value, ub)

\* [index: cl is the result of asking for the closing bracket
IndexClosed(closing, index) ==
  CHOOSE r \in {
    IF ~cl.ok THEN Failed(cl.s)
    ELSE Produce(cl.s, "Index", ArgIndex(index))
    : cl \in {closing}} : TRUE

\* case EToken::OpenBracket of NextSelector, from the AsIndex result on
BracketIndex(asIndex, ub) ==
  CHOOSE r \in {
    IF index.kind = "value"
    THEN IndexClosed(
           NextSelectorToken(index.s, BitsOf({"CloseBracket"}), "InvalidToken", ub),
           index.value)
    ELSE IF index.s.m_curException.set THEN Failed(index.s)
    ELSE NextSelectorFilter(index.s, ub)
    : index \in {asIndex}} : TRUE

\* case EToken::OpenBracket of NextSelector, from the first token on
BracketFirst(firstTok, ub) ==
  CHOOSE r \in {
    IF ~first.ok THEN Failed(first.s)
    ELSE BracketIndex(AsIndex(first.s), ub)
    : first \in {firstTok}} : TRUE

\* case EToken::OpenBracket of NextSelector
NextSelectorBracket(s, ub) ==
  BracketFirst(
    NextSelectorToken(s, BitsOf({"UnquotedIdentifier", "QuotedIdentifier"}),
                      "InvalidIndex", ub),
    ub)

\* case QuotedIdentifier / UnquotedIdentifier of NextSelector
KeySelected(s) ==
  [s |-> [s EXCEPT !.m_leftOffset = ScanOffset(s), !.m_periodAllowed = TRUE],
   ret |-> "Key"]

\* (faulty variant of AnalyzeToken) case EToken::None without the
\* m_selectorRequired test
AnalyzeTokenEndAllowed(token, ub) ==
  CHOOSE r \in {
    IF ~tok.ok THEN Failed(tok.s)
    ELSE IF tok.s.m_curToken.id = "None"
    THEN [s |-> tok.s, ret |-> "None"]
    ELSE IF tok.s.m_curToken.id \in {"QuotedIdentifier", "UnquotedIdentifier"}
    THEN KeySelected(SetSelector(tok.s, "Key", ArgKey(tok.s.m_curToken.value)))
    ELSE IF tok.s.m_curToken.id = "OpenBracket"
    THEN NextSelectorBracket(tok.s, ub)
    ELSE Failed(tok.s)
    : tok \in {token}} : TRUE

\* the switch of NextSelector; tok is the result of asking for a start token
AnalyzeToken(token, ub) ==
  CHOOSE r \in {
    IF ~tok.ok THEN Failed(tok.s)
    ELSE IF tok.s.m_curToken.id = "None"
    THEN IF tok.s.m_selectorRequired
         THEN Failed(SetError(tok.s, "UnexpectedEnd"))
         ELSE [s |-> tok.s, ret |-> "None"]
    ELSE IF tok.s.m_curToken.id \in {"QuotedIdentifier", "UnquotedIdentifier"}
    THEN KeySelected(SetSelector(tok.s, "Key", ArgKey(tok.s.m_curToken.value)))
    ELSE IF tok.s.m_curToken.id = "OpenBracket"
    THEN NextSelectorBracket(tok.s, ub)
    ELSE Failed(tok.s)
    : tok \in {token}} : TRUE

\* NextSelector from "// Next token" on
NextSelectorStart(s, ub) ==
  AnalyzeToken(NextSelectorToken(s, ValidTokensAtStart, "InvalidToken", ub), ub)

\* "skip period if allowed at this point"; tok is the result of asking for
\* a start token or a period
SkipPeriod(token, ub) ==
  CHOOSE r \in {
    IF ~tok.ok THEN Failed(tok.s)
    ELSE NextSelectorStart(
           IF tok.s.m_curToken.id = "Period"
           THEN [tok.s EXCEPT !.m_periodAllowed = FALSE,
                              !.m_selectorRequired = TRUE]
           ELSE [tok.s EXCEPT !.m_periodAllowed = FALSE,
                              !.m_tokenPending = TRUE],
           ub)
    : tok \in {token}} : TRUE

\* (faulty variant of NextSelector) without the "sticky on error" test
NextSelectorNotSticky(s, ub) ==
  IF s.m_periodAllowed
  THEN SkipPeriod(
         NextSelectorToken(s, ValidTokensAtStart \cup BitsOf({"Period"}),
                           "InvalidToken", ub),
         ub)
  ELSE NextSelectorStart(s, ub)

\* NextSelector: s is the scanner after the call, ret the returned ESelector
NextSelector(s, ub) ==
  IF s.m_curException.set THEN Failed(s)
  ELSE IF s.m_periodAllowed
  THEN SkipPeriod(
         NextSelectorToken(s, ValidTokensAtStart \cup BitsOf({"Period"}),
                           "InvalidToken", ub),
         ub)
  ELSE NextSelectorStart(s, ub)

(***************************************************************************)
(* YAML::Node, as far as the resolver uses it.  A node is a record: type   *)
(* is its NodeType, scalar the text of a scalar, items the elements of a   *)
(* sequence or the values of a map, keys the keys of a map (same order).   *)
(***************************************************************************)
MkNode(type, scalar, keys, items) ==
  [type |-> type, scalar |-> scalar, keys |-> keys, items |-> items]

\* Node()["x"]: a node for which operator bool is false
UndefinedNode == MkNode("Undefined", <<>>, <<>>, <<>>)

\* YAML::Node newNode; a default constructed node is Null
NullNode == MkNode("Null", <<>>, <<>>, <<>>)

ScalarNode(text) == MkNode("Scalar", text, <<>>, <<>>)

SequenceNode(items) == MkNode("Sequence", <<>>, <<>>, items)

MapNode(keys, items) == MkNode("Map", <<>>, keys, items)

\* explicit operator bool of Node
IsDefined(n) == n.type # "Undefined"

IsNull(n) == n.type = "Null"

IsScalar(n) == n.type = "Scalar"

IsSequence(n) == n.type = "Sequence"

IsMap(n) == n.type = "Map"

Size(n) == IF IsSequence(n) \/ IsMap(n) THEN Len(n.items) ELSE 0

\* map[std::string(key)]: the value of the key, an undefined node if absent
MapGet(n, key) ==
  IF \E i \in 1..Len(n.keys) : n.keys[i] = key
  THEN n.items[CHOOSE i \in 1..Len(n.keys) :
                 n.keys[i] = key /\ \A j \in 1..(i - 1) : n.keys[j] # key]
  ELSE UndefinedNode

RECURSIVE PushBackAll(_, _, _)
\* for (auto && el : node) if (keep(el)) newNode.push_back(value(el)),
\* from element i on; acc holds what has been pushed
PushBackAll(items, i, acc) ==
  IF i > Len(items) THEN acc
  ELSE PushBackAll(items, i + 1,
                   IF items[i].keep THEN Append(acc, items[i].value) ELSE acc)

\* newNode after the loop: Null if nothing was pushed, else a sequence
Collected(pushed) == IF pushed = <<>> THEN NullNode ELSE SequenceNode(pushed)

\* (faulty variant of IsMatch) a null node counts as a match
IsMatchNullAccepted(n) ==
  ~(~IsDefined(n)
    \/ (IsSequence(n) /\ Size(n) = 0)
    \/ (IsMap(n) /\ Size(n) = 0))

IsMatch(n) ==
  ~(~IsDefined(n) \/ IsNull(n)
    \/ (IsSequence(n) /\ Size(n) = 0)
    \/ (IsMap(n) /\ Size(n) = 0))

\* (faulty variant of ByKeyElement) without the test `if (value)'
ByKeyElementKeepsAbsent(el, key) ==
  LET value == IF IsMap(el) THEN MapGet(el, key) ELSE UndefinedNode
  IN [keep |-> IsMap(el), value |-> value]

\* the element test and pushed value of the loop in SeqMapByKey
ByKeyElement(el, key) ==
  LET value == IF IsMap(el) THEN MapGet(el, key) ELSE UndefinedNode
  IN [keep |-> IsMap(el) /\ IsDefined(value), value |-> value]

\* (faulty variant of SeqMapByKey) a single match is handed out unwrapped
SeqMapByKeyUnwrapped(node, key) ==
  IF ~IsSequence(node) /\ ~IsMap(node)
  THEN [err |-> "InvalidNodeType", node |-> node]
  ELSE
    LET newNode ==
          IF IsSequence(node)
          THEN Collected(PushBackAll(
                 [i \in 1..Len(node.items) |-> ByKeyElement(node.items[i], key)],
                 1, <<>>))
          ELSE MapGet(node, key)
    IN IF ~IsMatch(newNode)
       THEN [err |-> "NodeNotFound", node |-> node]
       ELSE IF IsSequence(node) /\ Size(newNode) = 1
       THEN [err |-> "None", node |-> newNode.items[1]]
       ELSE [err |-> "None", node |-> newNode]

\* SeqMapByKey: err is the returned EPathError, node the node afterwards
SeqMapByKey(node, key) ==
  IF ~IsSequence(node) /\ ~IsMap(node)
  THEN [err |-> "InvalidNodeType", node |-> node]
  ELSE
    LET newNode ==
          IF IsSequence(node)
          THEN Collected(PushBackAll(
                 [i \in 1..Len(node.items) |-> ByKeyElement(node.items[i], key)],
                 1, <<>>))
          ELSE MapGet(node, key)
    IN IF ~IsMatch(newNode)
       THEN [err |-> "NodeNotFound", node |-> node]
       ELSE [err |-> "None", node |-> newNode]

prelim_node_eq(n, p) == IsScalar(n) /\ n.scalar = p

\* (faulty variant of SeqMapFilterMatchElement) without the IsScalar test
SeqMapFilterMatchAnyShape(element, arg) ==
  IF ~IsMap(element) THEN FALSE
  ELSE LET v == MapGet(element, arg.key)
       IN IF ~IsDefined(v) THEN FALSE
          ELSE ~arg.hasValue \/ prelim_node_eq(v, arg.value)

SeqMapFilterMatchElement(element, arg) ==
  IF ~IsMap(element) THEN FALSE
  ELSE LET v == MapGet(element, arg.key)
       IN IF ~IsDefined(v) \/ ~IsScalar(v) THEN FALSE
          ELSE ~arg.hasValue \/ prelim_node_eq(v, arg.value)

\* (faulty variant of SeqMapFilter) the node is reset before the match test
SeqMapFilterResetsFirst(node, arg) ==
  IF ~IsSequence(node) /\ ~IsMap(node)
  THEN [err |-> "InvalidNodeType", node |-> node]
  ELSE
    LET newNode ==
          IF IsSequence(node)
          THEN Collected(PushBackAll(
                 [i \in 1..Len(node.items) |->
                    [keep |-> SeqMapFilterMatchElement(node.items[i], arg),
                     value |-> node.items[i]]],
                 1, <<>>))
          ELSE IF SeqMapFilterMatchElement(node, arg) THEN node ELSE NullNode
    IN IF ~IsMatch(newNode)
       THEN [err |-> "NodeNotFound", node |-> newNode]
       ELSE [err |-> "None", node |-> newNode]

\* SeqMapFilter: err is the returned EPathError, node the node afterwards
SeqMapFilter(node, arg) ==
  IF ~IsSequence(node) /\ ~IsMap(node)
  THEN [err |-> "InvalidNodeType", node |-> node]
  ELSE
    LET newNode ==
          IF IsSequence(node)
          THEN Collected(PushBackAll(
                 [i \in 1..Len(node.items) |->
                    [keep |-> SeqMapFilterMatchElement(node.items[i], arg),
                     value |-> node.items[i]]],
                 1, <<>>))
          ELSE IF SeqMapFilterMatchElement(node, arg) THEN node ELSE NullNode
    IN IF ~IsMatch(newNode)
       THEN [err |-> "NodeNotFound", node |-> node]
       ELSE [err |-> "None", node |-> newNode]

\* (faulty variant of ResolveIndexCase) without the case of a scalar node
ResolveIndexCaseNoScalar(node, index) ==
  IF IsSequence(node)
  THEN IF index >= Size(node)
       THEN [err |-> "NodeNotFound", node |-> node]
       ELSE [err |-> "None", node |-> node.items[index + 1]]
  ELSE [err |-> "InvalidNodeType", node |-> node]

\* case ESelector::Index of PathResolve
ResolveIndexCase(node, index) ==
  IF IsScalar(node)
  THEN IF index # 0
       THEN [err |-> "NodeNotFound", node |-> node]
       ELSE [err |-> "None", node |-> node]
  ELSE IF IsSequence(node)
  THEN IF index >= Size(node)
       THEN [err |-> "NodeNotFound", node |-> node]
       ELSE [err |-> "None", node |-> node.items[index + 1]]
  ELSE [err |-> "InvalidNodeType", node |-> node]

(***************************************************************************)
(* Inputs: paths and trees.                                                *)
(***************************************************************************)
Alphabet == {"a", "1", ".", "[", "]", "=", "'", " ", "#"}

\* every path over Alphabet of length at most n
AlphabetPaths(n) == UNION {[1..k -> Alphabet] : k \in 0..n}

\* every bracketed numeral [d..d] of at most MaxDigits digits
Numerals ==
  {<<"[">> \o d \o <<"]">> : d \in UNION {[1..k -> DigitSet] : k \in 1..MaxDigits}}

\* path fragments: keys, separators, indexes, filters, blanks and slips
Segs ==
  { <<"a">>, <<"b">>, <<".", "b">>, <<"[", "0", "]">>, <<"[", "2", "]">>,
    <<"[", "n", "=", "f", "]">>, <<"[", "n", "=", "]">>,
    <<".">>, <<"[", "x", "]">>, <<" ">> }

RECURSIVE SegPaths(_)
\* every concatenation of at most k fragments
SegPaths(k) ==
  IF k = 0 THEN {<<>>}
  ELSE LET shorter == SegPaths(k - 1)
       IN shorter \cup {p \o g : p \in shorter, g \in Segs}

ValidatePaths == AlphabetPaths(MaxLen) \cup Numerals \cup SegPaths(MaxSegs)

ScanPaths == AlphabetPaths(MaxScanLen) \cup SegPaths(MaxSegs - 1)

ResolvePaths == SegPaths(MaxSegs)

Str1(c) == ScalarNode(<<c>>)

\* { n: name, b: value }
Item(name, value) == MapNode(<< <<"n">>, <<"b">> >>, <<Str1(name), Str1(value)>>)

\* {a: {c: 1}}
TreeAC == MapNode(<< <<"a">> >>, << MapNode(<< <<"c">> >>, <<Str1("1")>>) >>)

\* {a: {b: [1, 2, 3]}}
TreeAB ==
  MapNode(<< <<"a">> >>,
          << MapNode(<< <<"b">> >>,
                     << SequenceNode(<<Str1("1"), Str1("2"), Str1("3")>>) >>) >>)

\* {a: [{n: f, b: 1}, {n: g, b: 2}]}
TreeItems ==
  MapNode(<< <<"a">> >>, << SequenceNode(<<Item("f", "1"), Item("g", "2")>>) >>)

\* [{n: f, b: 1}, x, {b: 2}, {n: [f]}, {n: f}, {n: g, b: 3}, {n: f, b: 4}, ~]
TreeMixed ==
  SequenceNode(<< Item("f", "1"), Str1("x"),
                  MapNode(<< <<"b">> >>, <<Str1("2")>>),
                  MapNode(<< <<"n">> >>, <<SequenceNode(<<Str1("f")>>)>>),
                  MapNode(<< <<"n">> >>, <<Str1("f")>>),
                  Item("g", "3"), Item("f", "4"), NullNode >>)

\* {a: ~, b: {}, n: f}
TreeNulls ==
  MapNode(<< <<"a">>, <<"b">>, <<"n">> >>,
          << NullNode, MapNode(<<>>, <<>>), Str1("f") >>)

\* the scalar x
TreeScalar == Str1("x")

\* {a: {b: {b: 1}}, b: {b: ~}}
TreeNested ==
  MapNode(<< <<"a">>, <<"b">> >>,
          << MapNode(<< <<"b">> >>, << MapNode(<< <<"b">> >>, <<Str1("1")>>) >>),
             MapNode(<< <<"b">> >>, <<NullNode>>) >>)

\* [{b: ~}, {a: 1}]
TreeSeqNull ==
  SequenceNode(<< MapNode(<< <<"b">> >>, <<NullNode>>),
                  MapNode(<< <<"a">> >>, <<Str1("1")>>) >>)

Trees ==
  {TreeAC, TreeAB, TreeItems, TreeMixed, TreeNulls, TreeScalar, TreeNested,
   TreeSeqNull, NullNode, UndefinedNode}

(***************************************************************************)
(* PathException.  A message is the sequence of the fragments streamed     *)
(* into it: a literal of the source is one fragment, a number is one       *)
(* fragment for each of its decimal digits, and a value is one fragment    *)
(* for each of its characters.                                             *)
(***************************************************************************)
\* the error kinds, as the switch of ThrowDerived lists them
EPathErrors ==
  {"None", "Internal", "InvalidToken", "InvalidIndex", "UnexpectedEnd",
   "InvalidNodeType", "NodeNotFound"}

\* (int)m_error: the position of the kind in the declaration of EPathError
ErrorNumber(error) ==
  CASE error = "None" -> 0
    [] error = "Internal" -> 1
    [] error = "InvalidToken" -> 2
    [] error = "InvalidIndex" -> 3
    [] error = "UnexpectedEnd" -> 4
    [] error = "InvalidNodeType" -> 5
    [] error = "NodeNotFound" -> 6

\* PathException(error, offset, value): the cached message starts empty
PathException(error, offset, value) ==
  [m_error |-> error, m_offset |-> offset, m_value |-> value, m_what |-> <<>>]

RECURSIVE FormatInt(_)
\* stream << n for an unsigned n: its decimal digits
FormatInt(n) ==
  IF n < 10 THEN <<Digits[n + 1]>>
  ELSE FormatInt(n \div 10) \o <<Digits[(n % 10) + 1]>>

\* ... << m_offset << ": " << m_value
OffsetAndValue(e) == FormatInt(e.m_offset) \o <<": ">> \o e.m_value

\* the switch over m_error: the text that is assigned to m_what
WhatSwitch(e) ==
  CASE e.m_error = "None" -> <<"OK">>
    [] e.m_error = "InvalidToken" ->
         <<"Invalid Token at position ">> \o OffsetAndValue(e)
    [] e.m_error = "InvalidIndex" ->
         <<"Index expected at position ">> \o OffsetAndValue(e)
    [] e.m_error = "UnexpectedEnd" ->
         <<"unexpected end of path at position ">> \o OffsetAndValue(e)
    [] e.m_error = "InvalidNodeType" ->
         <<"node type mismatch at path position ">> \o OffsetAndValue(e)
    [] e.m_error = "NodeNotFound" ->
         <<"node not found at path position ">> \o OffsetAndValue(e)
    [] OTHER ->
         <<"Undefined exception #">> \o FormatInt(ErrorNumber(e.m_error))
           \o <<" at offset ">> \o OffsetAndValue(e)

\* What(): the exception afterwards (m_what is mutable) and the text returned
What(e) ==
  IF ~(Len(e.m_what) # 0)
  THEN [e |-> e, text |-> e.m_what]
  ELSE [e |-> [e EXCEPT !.m_what = WhatSwitch(e)], text |-> WhatSwitch(e)]

(***************************************************************************)
(* State.                                                                  *)
(***************************************************************************)
VARIABLES
  m_rpath, m_all, m_curToken, m_selector, m_selectorData, m_tokenPending,
  m_selectorRequired, m_periodAllowed, m_leftOffset, m_curException,
  op,        \* the entry point running: "validate", "resolve" or "scan"
  pc,        \* "loop": at the loop condition / between calls; "done"; "aborted"
  node,      \* PathResolve: the caller's node reference
  path,      \* PathResolve: the caller's path argument
  root,      \* PathResolve: the node the caller passed in
  result,    \* the EPathError returned, "Running" before the return
  valid,     \* PathValidate: *valid
  scanOffs,  \* PathValidate: *scanOffs
  ret,       \* what the last NextSelector call returned, "NoCall" before
  calls,     \* number of direct scanner calls, or of repeated PathResolve calls
  called,    \* the scanner member called last, "none" before
  selected,  \* Select: whether it has returned, and the node it returned
  exc,       \* What: the PathException it is called on
  what       \* What: the message returned last

scanVars ==
  <<m_rpath, m_all, m_curToken, m_selector, m_selectorData, m_tokenPending,
    m_selectorRequired, m_periodAllowed, m_leftOffset, m_curException>>

vars ==
  <<m_rpath, m_all, m_curToken, m_selector, m_selectorData, m_tokenPending,
    m_selectorRequired, m_periodAllowed, m_leftOffset, m_curException,
    op, pc, node, path, root, result, valid, scanOffs, ret, calls, called,
    selected, exc, what>>

whatVars == <<exc, what>>

\* What is not called: there is no exception object and no message
NoWhatCall == exc = PathException("None", 0, <<>>) /\ what = <<>>

\* Select has not returned
NotSelected == [returned |-> FALSE, node |-> UndefinedNode]

\* the scanner of the running call
Scan ==
  [m_rpath |-> m_rpath, m_all |-> m_all, m_curToken |-> m_curToken,
   m_selector |-> m_selector, m_selectorData |-> m_selectorData,
   m_tokenPending |-> m_tokenPending,
   m_selectorRequired |-> m_selectorRequired,
   m_periodAllowed |-> m_periodAllowed, m_leftOffset |-> m_leftOffset,
   m_curException |-> m_curException]

\* the scanner becomes s (in Init: unprimed, see ScanIs)
ScanBecomes(s) ==
  /\ m_rpath' = s.m_rpath
  /\ m_all' = s.m_all
  /\ m_curToken' = s.m_curToken
  /\ m_selector' = s.m_selector
  /\ m_selectorData' = s.m_selectorData
  /\ m_tokenPending' = s.m_tokenPending
  /\ m_selectorRequired' = s.m_selectorRequired
  /\ m_periodAllowed' = s.m_periodAllowed
  /\ m_leftOffset' = s.m_leftOffset
  /\ m_curException' = s.m_curException

ScanIs(s) ==
  /\ m_rpath = s.m_rpath
  /\ m_all = s.m_all
  /\ m_curToken = s.m_curToken
  /\ m_selector = s.m_selector
  /\ m_selectorData = s.m_selectorData
  /\ m_tokenPending = s.m_tokenPending
  /\ m_selectorRequired = s.m_selectorRequired
  /\ m_periodAllowed = s.m_periodAllowed
  /\ m_leftOffset = s.m_leftOffset
  /\ m_curException = s.m_curException

\* a NextSelector call has returned r
Returned(r) == ScanBecomes(r.s) /\ ret' = r.ret /\ called' = "NextSelector"

\* Left(): the part of the path up to the end of the last selector produced
Left(s) == SubSeq(s.m_all, 1, s.m_leftOffset)

(***************************************************************************)
(* PathValidate.                                                           *)
(***************************************************************************)
InitValidate ==
  \E p \in ValidatePaths :
    /\ ScanIs(PathScanner(p))
    /\ op = "validate" /\ pc = "loop"
    /\ node = UndefinedNode /\ root = UndefinedNode /\ path = p
    /\ result = "Running" /\ valid = <<>> /\ scanOffs = 0
    /\ ret = "NoCall" /\ calls = 0 /\ called = "none"
    /\ selected = NotSelected /\ NoWhatCall

\* while (scan) scan.NextSelector();
ValidateStep ==
  /\ op = "validate" /\ pc = "loop"
  /\ ScanBool(Scan)
  /\ \E r \in {NextSelector(Scan, ub) : ub \in UBShiftOutcomes} : Returned(r)
  /\ UNCHANGED <<op, pc, node, path, root, result, valid, scanOffs, calls, selected, whatVars>>

\* the loop has ended: *valid, *scanOffs and the returned error
ValidateReturn ==
  /\ op = "validate" /\ pc = "loop"
  /\ ~ScanBool(Scan)
  /\ valid' = Left(Scan)
  /\ scanOffs' = ScanOffset(Scan)
  /\ result' = IF m_curException.set THEN m_curException.error ELSE "None"
  /\ pc' = "done"
  /\ UNCHANGED <<scanVars, op, node, path, root, ret, calls, called, selected, whatVars>>

NextValidate == ValidateStep \/ ValidateReturn

SpecValidate == InitValidate /\ [][NextValidate]_vars

(***************************************************************************)
(* Direct calls of the scanner's public members.                           *)
(***************************************************************************)
InitScan ==
  \E p \in ScanPaths :
    /\ ScanIs(PathScanner(p))
    /\ op = "scan" /\ pc = "loop"
    /\ node = UndefinedNode /\ root = UndefinedNode /\ path = p
    /\ result = "Running" /\ valid = <<>> /\ scanOffs = 0
    /\ ret = "NoCall" /\ calls = 0 /\ called = "none"
    /\ selected = NotSelected /\ NoWhatCall

CallNextSelector ==
  /\ op = "scan" /\ calls < MaxCalls
  /\ \E r \in {NextSelector(Scan, ub) : ub \in UBShiftOutcomes} : Returned(r)
  /\ calls' = calls + 1
  /\ UNCHANGED <<op, pc, node, path, root, result, valid, scanOffs, selected, whatVars>>

CallNextToken ==
  /\ op = "scan" /\ calls < MaxCalls
  /\ \E s \in {NextToken(Scan)} : ScanBecomes(s)
  /\ called' = "NextToken"
  /\ calls' = calls + 1
  /\ UNCHANGED <<op, pc, node, path, root, result, valid, scanOffs, ret, selected, whatVars>>

NextScan == CallNextSelector \/ CallNextToken

SpecScan == InitScan /\ [][NextScan]_vars

(***************************************************************************)
(* PathValidate as a function of the path (the loop run to its end).       *)
(***************************************************************************)
RECURSIVE ValidateLoop(_, _)
ValidateLoop(s, ub) ==
  IF ScanBool(s) THEN ValidateLoop(NextSelector(s, ub).s, ub) ELSE s

PathValidate(p, ub) ==
  LET s == ValidateLoop(PathScanner(p), ub)
  IN [error |-> IF s.m_curException.set THEN s.m_curException.error ELSE "None",
      valid |-> Left(s), scanOffs |-> ScanOffset(s)]

(***************************************************************************)
(* PathResolve.  One action per way through one iteration of the loop.     *)
(***************************************************************************)
InitResolve ==
  \E p \in ResolvePaths, n \in Trees :
    /\ ScanIs(PathScanner(p))
    /\ op = "resolve" /\ pc = "loop"
    /\ node = n /\ root = n /\ path = p
    /\ result = "Running" /\ valid = <<>> /\ scanOffs = 0
    /\ ret = "NoCall" /\ calls = 0 /\ called = "none"
    /\ selected = NotSelected /\ NoWhatCall

\* the loop is entered: while (scan)
InLoop == op = "resolve" /\ pc = "loop" /\ ScanBool(Scan)

\* a selector was applied: return its error, or continue with the new node
Applied(r) ==
  /\ node' = r.node
  /\ IF r.err # "None"
     THEN result' = r.err /\ pc' = "done"
     ELSE result' = result /\ pc' = pc

\* switch (scan.NextSelector()), r being what the call returned
SelectedKey(r) ==
  r.ret = "Key" /\ Returned(r) /\ Applied(SeqMapByKey(node, r.s.m_selectorData.key))

SelectedIndex(r) ==
  /\ r.ret = "Index" /\ Returned(r)
  /\ Applied(ResolveIndexCase(node, r.s.m_selectorData.index))

SelectedSeqMapFilter(r) ==
  /\ r.ret = "SeqMapFilter" /\ Returned(r)
  /\ Applied(SeqMapFilter(node, r.s.m_selectorData))

SelectedOther(r) ==
  r.ret \notin {"Key", "Index", "SeqMapFilter"} /\ Returned(r)

\* if (!node) return EPathError::NodeNotFound;
ResolveNodeUndefined ==
  /\ InLoop
  /\ ~IsDefined(node)
  /\ result' = "NodeNotFound"
  /\ pc' = "done"
  /\ UNCHANGED <<scanVars, op, node, path, root, valid, scanOffs, ret, calls, called, selected, whatVars>>

\* case ESelector::Key
ResolveKey ==
  /\ InLoop
  /\ IsDefined(node)
  /\ \E r \in {NextSelector(Scan, ub) : ub \in UBShiftOutcomes} : SelectedKey(r)
  /\ path' = Right(Scan)
  /\ UNCHANGED <<op, root, valid, scanOffs, calls, selected, whatVars>>

\* case ESelector::Index
ResolveIndex ==
  /\ InLoop
  /\ IsDefined(node)
  /\ \E r \in {NextSelector(Scan, ub) : ub \in UBShiftOutcomes} : SelectedIndex(r)
  /\ path' = Right(Scan)
  /\ UNCHANGED <<op, root, valid, scanOffs, calls, selected, whatVars>>

\* case ESelector::SeqMapFilter
ResolveSeqMapFilter ==
  /\ InLoop
  /\ IsDefined(node)
  /\ \E r \in {NextSelector(Scan, ub) : ub \in UBShiftOutcomes} : SelectedSeqMapFilter(r)
  /\ path' = Right(Scan)
  /\ UNCHANGED <<op, root, valid, scanOffs, calls, selected, whatVars>>

\* default: assert(false); a build without NDEBUG aborts, a build with
\* NDEBUG leaves the switch and goes on to the loop condition
ResolveDefault ==
  /\ InLoop
  /\ IsDefined(node)
  /\ \E r \in {NextSelector(Scan, ub) : ub \in UBShiftOutcomes} : SelectedOther(r)
  /\ \E ndebug \in BOOLEAN : pc' = IF ndebug THEN "loop" ELSE "aborted"
  /\ path' = Right(Scan)
  /\ UNCHANGED <<op, node, root, result, valid, scanOffs, calls, selected, whatVars>>

\* the loop has ended: path = scan.Right(); return EPathError::None;
ResolveReturn ==
  /\ op = "resolve" /\ pc = "loop"
  /\ ~ScanBool(Scan)
  /\ path' = Right(Scan)
  /\ result' = "None"
  /\ pc' = "done"
  /\ UNCHANGED <<scanVars, op, node, root, valid, scanOffs, ret, calls, called, selected, whatVars>>

\* Select, after its PathResolve call has returned:
\* return path.length() ? UndefinedNode() : node;
SelectReturn ==
  /\ op = "resolve" /\ pc = "done" /\ ~selected.returned /\ calls = 0
  /\ selected' = [returned |-> TRUE,
                  node |-> IF Len(path) # 0 THEN UndefinedNode ELSE node]
  /\ UNCHANGED <<scanVars, op, pc, node, path, root, result, valid, scanOffs,
                 ret, calls, called, whatVars>>

\* the caller resolves again: PathResolve(node, path) with the node and the
\* path that a call returning None has left
ResolveAgain ==
  /\ op = "resolve" /\ pc = "done" /\ result = "None"
  /\ ~selected.returned /\ calls < MaxAgain
  /\ ScanBecomes(PathScanner(path))
  /\ pc' = "loop" /\ result' = "Running" /\ root' = node
  /\ ret' = "NoCall" /\ called' = "none" /\ calls' = calls + 1
  /\ UNCHANGED <<op, node, path, valid, scanOffs, selected, whatVars>>

NextResolve ==
  \/ ResolveAgain
  \/ ResolveNodeUndefined
  \/ ResolveKey
  \/ ResolveIndex
  \/ ResolveSeqMapFilter
  \/ ResolveDefault
  \/ ResolveReturn
  \/ SelectReturn

SpecResolve == InitResolve /\ [][NextResolve]_vars

(***************************************************************************)
(* Every entry point.                                                      *)
(***************************************************************************)
Init == InitValidate \/ InitScan \/ InitResolve

Next == NextValidate \/ NextScan \/ NextResolve

Spec == Init /\ [][Next]_vars

\* one step of a running PathResolve call
PathResolveRuns ==
  \/ ResolveNodeUndefined
  \/ ResolveKey
  \/ ResolveIndex
  \/ ResolveSeqMapFilter
  \/ ResolveDefault
  \/ ResolveReturn

\* the paths of the calls that are followed to their end
FairPaths == SegPaths(MaxFairSegs)

\* the trees of the PathResolve calls that are followed to their end
FairTrees == {TreeItems, TreeMixed, UndefinedNode}

InitFair ==
  \/ InitValidate /\ path \in FairPaths
  \/ InitResolve /\ path \in FairPaths /\ root \in FairTrees

NextFair == NextValidate \/ NextResolve

\* a call that has been entered keeps running: the loops of PathValidate and
\* PathResolve wait for nothing
SpecFair ==
  InitFair /\ [][NextFair]_vars
  /\ WF_vars(NextValidate) /\ WF_vars(PathResolveRuns)

(***************************************************************************)
(* What, called on a newly constructed PathException.                      *)
(***************************************************************************)
\* the offsets of the exceptions
WhatOffsets == 0..MaxOffset

\* the offending values of the exceptions
WhatValues == AlphabetPaths(MaxValueLen)

InitWhat ==
  \E error \in EPathErrors, offset \in WhatOffsets, value \in WhatValues :
    /\ ScanIs(PathScanner(<<>>))
    /\ op = "what" /\ pc = "done"
    /\ node = UndefinedNode /\ root = UndefinedNode /\ path = <<>>
    /\ result = "Running" /\ valid = <<>> /\ scanOffs = 0
    /\ ret = "NoCall" /\ calls = 0 /\ called = "none"
    /\ selected = NotSelected
    /\ exc = PathException(error, offset, value) /\ what = <<>>

\* exc.What()
CallWhat ==
  /\ op = "what" /\ calls < MaxCalls
  /\ \E r \in {What(exc)} : exc' = r.e /\ what' = r.text
  /\ called' = "What" /\ calls' = calls + 1
  /\ UNCHANGED <<scanVars, op, pc, node, path, root, result, valid, scanOffs,
                 ret, selected>>

NextWhat == CallWhat

SpecWhat == InitWhat /\ [][NextWhat]_vars

(***************************************************************************)
(* Properties.                                                             *)
(***************************************************************************)
SyntaxErrors == {"InvalidToken", "InvalidIndex", "UnexpectedEnd"}

NodeErrors == {"NodeNotFound", "InvalidNodeType"}

\* {a: {c: 1}} is asked for a.b
PathAB == <<"a", ".", "b">>

\* {a: [{n: f, b: 1}, {n: g, b: 2}]} is asked for a[n=f].b
PathItems == <<"a", "[", "n", "=", "f", "]", ".", "b">>

\* the error PathValidate reports for the path being resolved, whatever the
\* outcome of an undefined shift
ValidateErrorIs(e) ==
  \A ub \in UBShiftOutcomes : PathValidate(m_all, ub).error = e

\* C1: PathResolve halts on the first error and returns it: when every
\* selector before a syntax error matched the tree, the call returns the
\* syntax error that PathValidate reports for the same path, and never None
\* for a path that PathValidate rejects.
C1_ResolveReturnsSyntaxError ==
  (op = "resolve" /\ pc # "loop" /\ result \notin NodeErrors)
    => \A e \in SyntaxErrors : ValidateErrorIs(e) => result = e

\* the first selector of the path p is the selector that failed, and it ends
\* where the scanner stands
FailedSelectorLeads(p) ==
  \A ub \in UBShiftOutcomes :
    /\ NextSelector(PathScanner(p), ub).ret = m_selector
    /\ NextSelector(PathScanner(p), ub).s.m_selectorData = m_selectorData
    /\ Len(NextSelector(PathScanner(p), ub).s.m_rpath) = Len(m_rpath)

\* PathResolve has returned the error of a selector it applied
SelectorFailed ==
  op = "resolve" /\ pc = "done" /\ result \in NodeErrors /\ ret # "NoCall"

WithoutSeparator(p) == IF p # <<>> /\ p[1] = "." THEN Tail(p) ELSE p

RECURSIVE Decimal(_)
\* the decimal value of a sequence of digits, in unbounded arithmetic
Decimal(d) ==
  IF d = <<>> THEN 0
  ELSE 10 * Decimal(SubSeq(d, 1, Len(d) - 1)) + DigitVal(d[Len(d)])

\* the value of the numeral of the path [d..d]
NumeralValue == Decimal(SubSeq(path, 2, Len(path) - 1))

\* C3: a bracketed all-digit token whose value exceeds the maximum of the
\* index type makes NextSelector record InvalidIndex and produce no Index
\* selector; an Index selector that is produced holds the exact decimal
\* value of the digits.
C3_IndexNeverWrapped ==
  (op = "validate" /\ path \in Numerals /\ ret # "NoCall") =>
    /\ NumeralValue > 2 ^ IndexBits - 1 =>
         (m_curException.set /\ m_curException.error = "InvalidIndex"
          /\ ret # "Index")
    /\ ret = "Index" => m_selectorData.index = NumeralValue

\* PathResolve has returned for a[n=f].b against the tree of two items
ItemsResolved ==
  op = "resolve" /\ pc = "done" /\ m_all = PathItems /\ root = TreeItems

\* C4 (as claimed): a[n=f].b against a map whose a is a sequence of maps of
\* which exactly one has n = f resolves to that element's b itself, the
\* scalar 1, not to a sequence holding it.
C4_FilterThenKeyYieldsValue ==
  ItemsResolved => (result = "None" /\ node = Str1("1"))

\* C4 (amended): a[n=f].b against that tree succeeds and resolves to a
\* sequence holding exactly the matching element's b: the key selector
\* applied to the filtered sequence collects the values into a new sequence.
C4_FilterThenKeyYieldsSequence ==
  ItemsResolved =>
    (result = "None" /\ path = <<>> /\ node = SequenceNode(<<Str1("1")>>))

C4_Witness ==
  ItemsResolved /\ result = "None" /\ node = SequenceNode(<<Str1("1")>>)

\* C5: the parser error is sticky: once an error is recorded, every later
\* NextSelector call on the scanner returns Invalid and leaves the recorded
\* error, its offset and the remaining path as they were.
C5_ErrorIsSticky ==
  [][(op = "scan" /\ m_curException.set /\ calls' = calls + 1
      /\ called' = "NextSelector")
       => (ret' = "Invalid" /\ m_curException' = m_curException
           /\ m_rpath' = m_rpath)]_vars

\* the path # fails at whichever member is called first; this is the state
\* after a second call, of NextSelector
C5_Witness ==
  /\ op = "scan" /\ m_all = <<"#">> /\ calls = 2 /\ called = "NextSelector"
  /\ ret = "Invalid" /\ m_curException.set
  /\ m_curException.error = "InvalidToken" /\ m_rpath = <<"#">>

RECURSIVE LastNonBlank(_, _)
\* the position of the last character of p, at or before i, that is no blank
LastNonBlank(p, i) ==
  IF i = 0 \/ ~IsWS(p[i]) THEN i ELSE LastNonBlank(p, i - 1)

\* q holds at least one selector and is a valid path
ValidSelectors(q) ==
  /\ PathScanner(q).m_rpath # <<>>
  /\ \A ub \in UBShiftOutcomes : PathValidate(q, ub).error = "None"

\* p is a valid selector sequence, then a separator at position k, then
\* nothing but blanks
EndsWithSeparatorAt(p, k) ==
  k >= 2 /\ p[k] = "." /\ ValidSelectors(SubSeq(p, 1, k - 1))

\* C6: for a path made of a valid selector sequence, a separator and then
\* nothing but blanks, PathValidate returns UnexpectedEnd with the scan
\* offset equal to the length of the path.
C6_TrailingSeparator ==
  (op = "validate" /\ pc = "done"
   /\ EndsWithSeparatorAt(path, LastNonBlank(path, Len(path))))
    => (result = "UnexpectedEnd" /\ scanOffs = Len(path))

C6_Witness ==
  /\ op = "validate" /\ pc = "done" /\ path = <<"a", ".">>
  /\ result = "UnexpectedEnd" /\ scanOffs = 2

\* the element is a map that holds the key with a scalar value which, when a
\* value is asked for, has that text
Qualifies(el, arg) ==
  /\ el.type = "Map"
  /\ \E i \in 1..Len(el.keys) :
       /\ el.keys[i] = arg.key
       /\ el.items[i].type = "Scalar"
       /\ arg.hasValue => el.items[i].scalar = arg.value

RECURSIVE Qualifying(_, _)
\* the elements that qualify, in their order
Qualifying(items, arg) ==
  IF items = <<>> THEN <<>>
  ELSE (IF Qualifies(Head(items), arg) THEN <<Head(items)>> ELSE <<>>)
         \o Qualifying(Tail(items), arg)

\* what a filter must leave of a sequence: kept are the elements to keep
FilterLeaves(kept, before, after, err) ==
  IF kept = <<>>
  THEN err = "NodeNotFound" /\ after = before
  ELSE err = "Running" /\ after = SequenceNode(kept)

AllDigits(text) == \A i \in 1..Len(text) : text[i] \in DigitSet

\* k is the scanner after the first token of a bracket: the token is an
\* identifier other than an unquoted numeral, and no equal sign follows
KeyWithoutEqual(k) ==
  /\ k.m_curToken.id \in {"QuotedIdentifier", "UnquotedIdentifier"}
  /\ ~(k.m_curToken.id = "UnquotedIdentifier" /\ AllDigits(k.m_curToken.value))
  /\ NextToken(k).m_curToken.id # "Equal"

\* b is the scanner after the first token of a selector: an opening bracket
BracketWithoutEqual(b) ==
  b.m_curToken.id = "OpenBracket" /\ KeyWithoutEqual(NextToken(b))

\* t is the scanner s after its next token: a separator, where one may
\* stand, is passed over
SelectorWithoutEqual(s, t) ==
  BracketWithoutEqual(
    IF s.m_periodAllowed /\ t.m_curToken.id = "Period" THEN NextToken(t) ELSE t)

UnterminatedQuote(rp) ==
  rp # <<>> /\ rp[1] \in {"'", "\""} /\ \A i \in 2..Len(rp) : rp[i] # rp[1]

\* the text starts with a punctuation character that is no token and no quote
EmptyRun(rp) ==
  rp # <<>> /\ IsPunct(rp[1]) /\ rp[1] \notin {".", "[", "]", "=", "'", "\""}

\* C9: a lexical error is reported as InvalidToken in every grammar position
\* (directly after an opening bracket too): an unterminated quoted identifier
\* yields InvalidToken at the offset of the opening quote, an empty unquoted
\* run yields InvalidToken.  (An error with no token text whose scan position
\* is at such a text was raised by that text.)
C9_LexicalErrorIsInvalidToken ==
  (op = "validate" /\ m_curException.set /\ m_curException.value = <<>>
   /\ (UnterminatedQuote(m_rpath) \/ EmptyRun(m_rpath)))
    => /\ m_curException.error = "InvalidToken"
       /\ m_curException.offset = Len(m_all) - Len(m_rpath)

\* the text starts a key: a quote or an identifier character
StartsKey(rp) == rp # <<>> /\ (rp[1] \in {"'", "\""} \/ IsUnquotedChar(rp[1]))

\* C10: between two key selectors a separator is required: when a selector
\* has been produced and a key follows it directly, with no separator, the
\* next NextSelector call of PathValidate records an error (the path is
\* rejected).
C10_SeparatorRequired ==
  [][(op = "validate" /\ pc = "loop" /\ ScanBool(Scan)
      /\ m_periodAllowed /\ StartsKey(m_rpath))
       => m_curException'.set]_vars

\* the path [0][0]...[0]
ZeroIndexes(p) ==
  /\ p # <<>> /\ Len(p) % 3 = 0
  /\ \A i \in 1..Len(p) : p[i] = <<"[", "0", "]">>[((i - 1) % 3) + 1]

\* C11: an Index selector applied to a scalar node leaves the node on that
\* scalar and resolution going when the index is 0, and makes PathResolve
\* return NodeNotFound (node untouched) for every index greater than 0; a
\* path of [0] selectors only, resolved against a scalar, returns None with
\* the node still the scalar.
C11_IndexOnScalar ==
  [][/\ (InLoop /\ IsScalar(node) /\ ret' = "Index") =>
          /\ node' = node
          /\ m_selectorData'.index = 0 => (pc' = "loop" /\ result' = "Running")
          /\ m_selectorData'.index > 0 => (pc' = "done" /\ result' = "NodeNotFound")
     /\ (op = "resolve" /\ pc' = "done" /\ IsScalar(root) /\ ZeroIndexes(m_all)) =>
          (result' = "None" /\ node' = root /\ path' = <<>>)]_vars

\* [0][0][2] against the scalar x: two no-ops, then NodeNotFound
C11_Witness ==
  /\ op = "resolve" /\ pc = "done" /\ root = TreeScalar
  /\ m_all = <<"[", "0", "]", "[", "0", "]", "[", "2", "]">>
  /\ result = "NodeNotFound" /\ node = TreeScalar /\ path = <<"[", "2", "]">>

\* p is made of keys separated by single dots, nothing else
IsDotted(p) ==
  /\ p # <<>> /\ p[1] # "." /\ p[Len(p)] # "."
  /\ \A i \in 1..Len(p) : p[i] = "." \/ (IsUnquotedChar(p[i]) /\ IsAscii(p[i]))
  /\ \A i \in 1..(Len(p) - 1) : ~(p[i] = "." /\ p[i + 1] = ".")

RECURSIVE KeysOf(_)
\* the keys of a dotted path, in order
KeysOf(p) ==
  IF \A i \in 1..Len(p) : p[i] # "." THEN <<p>>
  ELSE LET i == CHOOSE i \in 1..Len(p) :
                  p[i] = "." /\ \A j \in 1..(i - 1) : p[j] # "."
       IN <<SubSeq(p, 1, i - 1)>> \o KeysOf(SubSeq(p, i + 1, Len(p)))

RECURSIVE LookupKeys(_, _)
\* looking the keys up one after another by hand
LookupKeys(n, keys) ==
  IF keys = <<>> THEN n ELSE LookupKeys(MapGet(n, Head(keys)), Tail(keys))

RECURSIVE AllPresent(_, _)
\* every key is present in the map reached by the keys before it
AllPresent(n, keys) ==
  \/ keys = <<>>
  \/ /\ IsMap(n)
     /\ \E i \in 1..Len(n.keys) : n.keys[i] = Head(keys)
     /\ AllPresent(MapGet(n, Head(keys)), Tail(keys))

\* PathResolve has ended for a dotted path whose keys are all present
DottedResolved ==
  /\ op = "resolve" /\ pc # "loop"
  /\ IsDotted(m_all) /\ AllPresent(root, KeysOf(m_all))

\* a scalar, or a map or sequence that is not empty
Matching(n) ==
  IsScalar(n) \/ ((IsMap(n) \/ IsSequence(n)) /\ n.items # <<>>)

\* the number of leading keys whose looked-up node is a match
MatchedKeys(n, keys) ==
  IF \A k \in 1..Len(keys) : Matching(LookupKeys(n, SubSeq(keys, 1, k)))
  THEN Len(keys)
  ELSE (CHOOSE k \in 1..Len(keys) :
          /\ ~Matching(LookupKeys(n, SubSeq(keys, 1, k)))
          /\ \A j \in 1..(k - 1) : Matching(LookupKeys(n, SubSeq(keys, 1, j)))) - 1

\* C12 (as claimed): for a path of dot-separated keys and a tree of nested
\* maps in which every key of the path is present, PathResolve returns None
\* and narrows the node to the node that the manual lookups yield, whatever
\* the shape of the final node (scalar, null, empty or non-empty map).
C12_DottedKeysAnyShape ==
  DottedResolved =>
    (pc = "done" /\ result = "None" /\ node = LookupKeys(root, KeysOf(m_all)))

\* C12 (amended): for such a path and tree, PathResolve returns None with
\* the node the manual lookups yield and an empty path when every looked-up
\* node is a match (not null, not an empty map or sequence); when a looked-up
\* node is null or empty, it returns NodeNotFound and leaves the node at what
\* the lookups before that key yield.
C12_DottedKeysMatchLookup ==
  DottedResolved =>
    /\ pc = "done"
    /\ IF MatchedKeys(root, KeysOf(m_all)) = Len(KeysOf(m_all))
       THEN /\ result = "None" /\ path = <<>>
            /\ node = LookupKeys(root, KeysOf(m_all))
       ELSE /\ result = "NodeNotFound"
            /\ node = LookupKeys(root, SubSeq(KeysOf(m_all), 1,
                                              MatchedKeys(root, KeysOf(m_all))))

\* a.b.b against {a: {b: {b: 1}}, b: {b: ~}} yields the scalar 1
C12_Witness ==
  /\ DottedResolved /\ root = TreeNested
  /\ m_all = <<"a", ".", "b", ".", "b">>
  /\ result = "None" /\ node = Str1("1")

\* the whole path resolved: it is syntactically valid, and PathResolve
\* returned None
ResolvedSuccessfully ==
  result = "None" /\ ValidateErrorIs("None")

\* C13: Select returns the narrowed final node only when the whole path
\* resolved successfully; for every path that fails, with a syntax error or
\* with NodeNotFound or InvalidNodeType, it returns the undefined node.
C13_SelectUndefinedOnFailure ==
  (op = "resolve" /\ selected.returned) =>
    IF ResolvedSuccessfully
    THEN selected.node = node
    ELSE selected.node = UndefinedNode

\* C14: on success (PathResolve returns None) the path argument is left
\* empty, and resolving that returned path again against the final node
\* returns None and leaves the node unchanged.
C14_IdempotentOnSuccess ==
  /\ (op = "resolve" /\ pc = "done" /\ result = "None") => path = <<>>
  /\ (op = "resolve" /\ calls > 0 /\ pc # "loop") =>
       (pc = "done" /\ result = "None" /\ node = root /\ path = <<>>)

Selectors == {"Key", "Index", "SeqMapFilter"}

\* the last scanner call was a NextSelector call that produced a selector,
\* and it reached the end of the path
ConsumedToEnd ==
  /\ op = "scan" /\ called = "NextSelector" /\ ret \in Selectors
  /\ ~m_curException.set /\ m_rpath = <<>>

\* C15: selector_required holds only for the selector directly after a
\* consumed separator: once the selectors of a path with a separator (a.b)
\* have all been produced, a further NextSelector call at the end of the
\* input returns None and records no error.
C15_SelectorRequiredReset ==
  [][(ConsumedToEnd /\ called' = "NextSelector" /\ calls' = calls + 1)
       => (ret' = "None" /\ ~m_curException'.set)]_vars

\* the text starts with a separator
StartsWithPeriod(rp) == rp # <<>> /\ rp[1] = "."

\* the text starts with two separators, blanks between them or not
StartsWithTwoPeriods(rp) ==
  StartsWithPeriod(rp) /\ StartsWithPeriod(Split(Tail(rp), "IsWS").right)

\* the NextSelector call of this step has recorded InvalidToken
RecordsInvalidToken ==
  /\ ret' = "Invalid"
  /\ m_curException'.set /\ m_curException'.error = "InvalidToken"

IsSuffix(rp, all) ==
  Len(rp) <= Len(all) /\ rp = SubSeq(all, Len(all) - Len(rp) + 1, Len(all))

\* a NextSelector call is made where a separator may follow, and the next
\* token is no separator: the token read for the separator is pushed back
PushesBack ==
  /\ op = "scan" /\ called' = "NextSelector" /\ calls' = calls + 1
  /\ ~m_curException.set /\ m_periodAllowed /\ ~StartsWithPeriod(m_rpath)

\* C17: in every scanner state the remaining path is a suffix of the
\* original path and ScanOffset, the original length minus the remaining
\* length, lies between 0 and the original length; no NextToken or
\* NextSelector call makes the remaining path longer; a pushed-back token is
\* handed out again without the remaining path being rewound: the call goes
\* on as a call that starts the selector at the token read (tokens, selector,
\* error and remaining path are the same).
C17_RemainingPathShrinks ==
  [][op = "scan" =>
       /\ m_all' = m_all
       /\ IsSuffix(m_rpath, m_all) /\ IsSuffix(m_rpath', m_all)
       /\ Len(m_rpath') <= Len(m_rpath)
       /\ ScanOffset(Scan) = Len(m_all) - Len(m_rpath)
       /\ ScanOffset(Scan) \in 0..Len(m_all)
       /\ Len(m_all') - Len(m_rpath') \in ScanOffset(Scan)..Len(m_all)
       /\ PushesBack =>
            \A ub \in UBShiftOutcomes :
              [Scan EXCEPT !.m_periodAllowed = FALSE]' =
                [NextSelector([Scan EXCEPT !.m_periodAllowed = FALSE], ub).s
                   EXCEPT !.m_periodAllowed = FALSE]
     ]_vars

\* on the path a the second NextSelector call has pushed back the end token
\* and returned None on it
C17_Witness ==
  /\ op = "scan" /\ m_all = <<"a">> /\ calls = 2 /\ called = "NextSelector"
  /\ ret = "None" /\ m_selector = "Key" /\ m_rpath = <<>> /\ ~m_curException.set

\* el is a map in which the key is present
HasKey(el, key) == IsMap(el) /\ \E i \in 1..Len(el.keys) : el.keys[i] = key

RECURSIVE ValuesOfKey(_, _)
\* the values of the key in the elements that are maps having it, in order
ValuesOfKey(items, key) ==
  IF items = <<>> THEN <<>>
  ELSE (IF HasKey(Head(items), key)
        THEN <<MapGet(Head(items), key)>> ELSE <<>>)
       \o ValuesOfKey(Tail(items), key)

\* this step has failed with the error e and left the node as it was
FailsWith(e) == pc' = "done" /\ result' = e /\ node' = node

\* this step has replaced the node by n and resolution goes on
GoesOnWith(n) == pc' = "loop" /\ result' = "Running" /\ node' = n

\* the step of a Key selector on a sequence, vals being the values collected
KeyOnSequence(vals) ==
  IF vals = <<>> THEN FailsWith("NodeNotFound")
  ELSE GoesOnWith(SequenceNode(vals))

\* C18: a Key selector applied to a sequence replaces the node by a new
\* sequence holding, in the original order, the value of the key for exactly
\* the elements that are maps in which the key is present; if that sequence
\* is empty the result is NodeNotFound; applied to a node that is neither a
\* map nor a sequence the result is InvalidNodeType.
C18_KeyOnSequence ==
  [][(InLoop /\ IsDefined(node) /\ ret' = "Key") =>
       /\ IsSequence(node) =>
            KeyOnSequence(ValuesOfKey(node.items, m_selectorData'.key))
       /\ (~IsSequence(node) /\ ~IsMap(node)) => FailsWith("InvalidNodeType")
     ]_vars

\* b against [{n: f, b: 1}, x, {b: 2}, {n: [f]}, {n: f}, {n: g, b: 3},
\* {n: f, b: 4}, ~] yields [1, 2, 3, 4]
C18_Witness ==
  /\ op = "resolve" /\ pc = "done" /\ root = TreeMixed /\ m_all = <<"b">>
  /\ result = "None"
  /\ node = SequenceNode(<<Str1("1"), Str1("2"), Str1("3"), Str1("4")>>)

\* this step has applied a selector that matched
SelectorMatched == InLoop /\ ret' \in Selectors /\ pc' = "loop"

\* C19: when a selector fails with NodeNotFound or InvalidNodeType the
\* caller's node is left as it was before that selector was applied; the
\* node is replaced only by a selector that matched; after every selector
\* that was applied successfully the node is defined.
C19_NodeKeptOnFailure ==
  [][op = "resolve" =>
       /\ (pc = "loop" /\ pc' = "done" /\ result' \in NodeErrors) => node' = node
       /\ node' # node => SelectorMatched
       /\ SelectorMatched => (IsDefined(node') /\ result' = "Running")
     ]_vars

\* a[n=f] against {a: {c: 1}}: a matched, the filter failed on {c: 1}
C19_Witness ==
  /\ op = "resolve" /\ pc = "done" /\ root = TreeAC
  /\ m_all = <<"a", "[", "n", "=", "f", "]">>
  /\ result = "NodeNotFound" /\ ret = "SeqMapFilter"
  /\ node = MapNode(<< <<"c">> >>, <<Str1("1")>>)

\* this step is a NextSelector call of PathValidate
ValidateCalls == op = "validate" /\ pc = "loop" /\ pc' = "loop"

\* this step is the return of PathValidate
ValidateReturns == op = "validate" /\ pc = "loop" /\ pc' = "done"

\* C20: PathValidate returns None exactly when the whole path parses (it is
\* consumed without an error); then the reported valid prefix is the whole
\* path and the scan offset is the length of the path.  When it returns an
\* error, the valid prefix ends exactly where the last produced selector
\* ended (it is empty if none was produced) and is no longer than the
\* reported scan offset.
C20_ValidPrefix ==
  [][/\ (ValidateCalls /\ ret' \in Selectors)
          => m_leftOffset' = Len(m_all) - Len(m_rpath')
     /\ (ValidateCalls /\ ret' \notin Selectors) => m_leftOffset' = m_leftOffset
     /\ ValidateReturns =>
          /\ result' = "None" <=> (~m_curException.set /\ m_rpath = <<>>)
          /\ result' = "None" => (valid' = m_all /\ scanOffs' = Len(m_all))
          /\ result' # "None" =>
               /\ valid' = SubSeq(m_all, 1, m_leftOffset)
               /\ (ret \notin Selectors /\ m_selector = "None") => valid' = <<>>
               /\ Len(valid') <= scanOffs'
    ]_vars

\* a NextSelector call is made in a loop `while (scan)'
LoopCalls ==
  /\ op \in {"validate", "resolve"} /\ pc = "loop" /\ ScanBool(Scan)
  /\ called' = "NextSelector" /\ ret' # "NoCall"

\* C21: PathValidate and PathResolve terminate for every path: each
\* NextSelector call made while the scanner is active (remaining path not
\* empty, no error) makes the remaining path strictly shorter or records an
\* error, and every call that is in its loop leaves it.
C21_LoopsTerminate ==
  /\ [][LoopCalls =>
          (Len(m_rpath') < Len(m_rpath) \/ m_curException'.set)]_vars
  /\ ((op \in {"validate", "resolve"} /\ pc = "loop") ~> (pc # "loop"))

\* a.b has been validated in two turns of the loop
C21_Witness ==
  /\ op = "validate" /\ pc = "done" /\ m_all = <<"a", ".", "b">>
  /\ result = "None" /\ ret = "Key" /\ m_rpath = <<>> /\ scanOffs = 3

\* sub occurs in text as a run of consecutive fragments
IsInfix(sub, text) ==
  \E i \in 0..(Len(text) - Len(sub)) : SubSeq(text, i + 1, i + Len(sub)) = sub

\* C22: What, called on a newly constructed exception (its cached message is
\* empty), returns a non-empty message for every error kind: "OK" for None,
\* and for every other kind a text that contains the offset and the value
C22_WhatBuildsMessage ==
  (op = "what" /\ called = "What") =>
    /\ Len(what) # 0
    /\ IF exc.m_error = "None"
       THEN what = <<"OK">>
       ELSE /\ IsInfix(FormatInt(exc.m_offset), what)
            /\ IsInfix(exc.m_value, what)

\* what the calls do instead: every call returns the empty cached message
\* and leaves it empty
WhatReturnsEmptyCache ==
  (op = "what" /\ called = "What") => what = <<>> /\ exc.m_what = <<>>

====
